---- MODULE Spec2Model ----
(***************************************************************************)
(* tweetdrop: the tweet scraper (src/scraper.ts with its entry point       *)
(* index.ts) and the follower scraper (followers/index.ts with its entry   *)
(* point).                                                                 *)
(*                                                                         *)
(* A JavaScript string is a sequence of one-character strings, so that     *)
(* the regular expressions, substring, toLowerCase and includes act on     *)
(* characters.  undefined and null are the strings Undefined and Null.     *)
(***************************************************************************)
EXTENDS Integers, Sequences, FiniteSets, TLC

Undefined == "<undefined>"
Null == "<null>"

\* ---------------------------------------------------------------- characters

Digits == {"0", "1", "2", "3", "4", "5", "6", "7", "8", "9"}
LowerLetters == {"a", "b", "c", "d", "e", "f", "g", "h", "i", "j", "k", "l", "m",
                 "n", "o", "p", "q", "r", "s", "t", "u", "v", "w", "x", "y", "z"}
UpperLetters == {"A", "B", "C", "D", "E", "F", "G", "H", "I", "J", "K", "L", "M",
                 "N", "O", "P", "Q", "R", "S", "T", "U", "V", "W", "X", "Y", "Z"}
\* [a-zA-Z0-9]
AlnumChars == {"0", "1", "2", "3", "4", "5", "6", "7", "8", "9", "a", "b", "c",
               "d", "e", "f", "g", "h", "i", "j", "k", "l", "m", "n", "o", "p",
               "q", "r", "s", "t", "u", "v", "w", "x", "y", "z", "A", "B", "C",
               "D", "E", "F", "G", "H", "I", "J", "K", "L", "M", "N", "O", "P",
               "Q", "R", "S", "T", "U", "V", "W", "X", "Y", "Z"}
\* [0-9a-fA-F]
HexChars == {"0", "1", "2", "3", "4", "5", "6", "7", "8", "9", "a", "b", "c",
             "d", "e", "f", "A", "B", "C", "D", "E", "F"}

IsAlnum(c) == c \in AlnumChars
\* \w
IsWord(c) == IsAlnum(c) \/ c = "_"
IsHex(c) == c \in HexChars

\* String.prototype.toLowerCase and toUpperCase, character by character
LowerOf == ("A" :> "a") @@ ("B" :> "b") @@ ("C" :> "c") @@ ("D" :> "d") @@ ("E" :> "e") @@ ("F" :> "f") @@
           ("G" :> "g") @@ ("H" :> "h") @@ ("I" :> "i") @@ ("J" :> "j") @@ ("K" :> "k") @@ ("L" :> "l") @@
           ("M" :> "m") @@ ("N" :> "n") @@ ("O" :> "o") @@ ("P" :> "p") @@ ("Q" :> "q") @@ ("R" :> "r") @@
           ("S" :> "s") @@ ("T" :> "t") @@ ("U" :> "u") @@ ("V" :> "v") @@ ("W" :> "w") @@ ("X" :> "x") @@
           ("Y" :> "y") @@ ("Z" :> "z")
UpperOf == ("a" :> "A") @@ ("b" :> "B") @@ ("c" :> "C") @@ ("d" :> "D") @@ ("e" :> "E") @@ ("f" :> "F") @@
           ("g" :> "G") @@ ("h" :> "H") @@ ("i" :> "I") @@ ("j" :> "J") @@ ("k" :> "K") @@ ("l" :> "L") @@
           ("m" :> "M") @@ ("n" :> "N") @@ ("o" :> "O") @@ ("p" :> "P") @@ ("q" :> "Q") @@ ("r" :> "R") @@
           ("s" :> "S") @@ ("t" :> "T") @@ ("u" :> "U") @@ ("v" :> "V") @@ ("w" :> "W") @@ ("x" :> "X") @@
           ("y" :> "Y") @@ ("z" :> "Z")
LowerChar(c) == IF c \in UpperLetters THEN LowerOf[c] ELSE c
UpperChar(c) == IF c \in LowerLetters THEN UpperOf[c] ELSE c
toLowerCase(s) == SubSeq([i \in DOMAIN s |-> LowerChar(s[i])], 1, Len(s))

\* String.prototype.substring(0, n)
substring(s, n) == SubSeq(s, 1, IF Len(s) < n THEN Len(s) ELSE n)
\* String.prototype.startsWith
startsWith(s, p) == Len(s) >= Len(p) /\ SubSeq(s, 1, Len(p)) = p
\* s has t at position p (1-based)
HasAt(s, p, t) == p >= 1 /\ p + Len(t) - 1 <= Len(s) /\ SubSeq(s, p, p + Len(t) - 1) = t
\* String.prototype.includes
includes(s, t) == \E p \in 1..Len(s) : HasAt(s, p, t)

Min(S) == CHOOSE x \in S : \A y \in S : x <= y
Max(S) == CHOOSE x \in S : \A y \in S : x >= y

\* ------------------------------------------------------------------- matcher

\* The width the address candidate is cut to
AddressLength == 42

NoMatch == <<>>

\* text.replace(/(\r\n|\n|\r)/gm, "")
RemoveLineBreaks(text) == SelectSeq(text, LAMBDA c : c \notin {"\r", "\n"})

\* The end of the maximal run of \w characters that starts at p
RECURSIVE WordRunEnd(_, _)
WordRunEnd(s, p) ==
    IF p + 1 <= Len(s) /\ IsWord(s[p + 1]) THEN WordRunEnd(s, p + 1) ELSE p
\* The end of the maximal run of non-blank characters that starts at p
RECURSIVE NonBlankRunEnd(_, _)
NonBlankRunEnd(s, p) ==
    IF p + 1 <= Len(s) /\ s[p + 1] # " " THEN NonBlankRunEnd(s, p + 1) ELSE p

\* /(0x[a-zA-Z0-9])\w+/ matches at p
AddressMatchAt(s, p) ==
    /\ p + 3 <= Len(s)
    /\ s[p] = "0"
    /\ s[p + 1] = "x"
    /\ IsAlnum(s[p + 2])
    /\ IsWord(s[p + 3])

\* s.match(addressRegex)[0]: the leftmost match, \w+ greedy
addressRegex(s) ==
    LET starts == {p \in 1..Len(s) : AddressMatchAt(s, p)}
    IN  IF starts = {} THEN NoMatch
        ELSE LET p == Min(starts)
             IN  SubSeq(s, p, WordRunEnd(s, p + 3))

\* ".eth", any case, at q
DotEthAt(s, q) ==
    /\ q + 3 <= Len(s)
    /\ s[q] = "."
    /\ LowerChar(s[q + 1]) = "e"
    /\ LowerChar(s[q + 2]) = "t"
    /\ LowerChar(s[q + 3]) = "h"

\* /([^ ]+\.(eth))/i matches starting at p: the greedy [^ ]+ runs to the end of
\* the run of non-blanks and backtracks to the last ".eth" in it
ENSMatchEndsIn(s, p, runEnd) == {q + 3 : q \in {q \in (p + 1)..(runEnd - 3) : DotEthAt(s, q)}}
ENSMatchEnds(s, p) ==
    IF p > Len(s) \/ s[p] = " " THEN {} ELSE ENSMatchEndsIn(s, p, NonBlankRunEnd(s, p))

\* A match that starts inside a run of non-blanks has one that starts where
\* the run starts, so the leftmost match starts a run
StartsRun(s, p) == s[p] # " " /\ (p = 1 \/ s[p - 1] = " ")

\* s.match(ENSRegex)[0]: the leftmost match
ENSRegex(s) ==
    LET starts == {p \in 1..Len(s) : StartsRun(s, p) /\ ENSMatchEnds(s, p) # {}}
    IN  IF starts = {} THEN NoMatch
        ELSE LET p == Min(starts)
             IN  SubSeq(s, p, Max(ENSMatchEnds(s, p)))

\* Mutant: the match is pushed whole
CandidateUncut(foundArrs) == IF foundArrs # NoMatch THEN <<foundArrs>> ELSE <<>>

\* Lines 105-110: the candidate pushed for one match, none for no match
Candidate(foundArrs) ==
    IF foundArrs # NoMatch /\ Len(foundArrs) > 0
    THEN <<IF startsWith(foundArrs, <<"0", "x">>)
           THEN substring(foundArrs, AddressLength)
           ELSE foundArrs>>
    ELSE <<>>

\* ----------------------------------------------------------------- validator

Str0x == <<"0", "x">>
HexValueOf == ("0" :> 0) @@ ("1" :> 1) @@ ("2" :> 2) @@ ("3" :> 3) @@ ("4" :> 4) @@ ("5" :> 5) @@ ("6" :> 6) @@ ("7" :> 7) @@
              ("8" :> 8) @@ ("9" :> 9) @@ ("a" :> 10) @@ ("b" :> 11) @@ ("c" :> 12) @@ ("d" :> 13) @@ ("e" :> 14) @@ ("f" :> 15)
HexValue(c) == HexValueOf[LowerChar(c)]

\* The 40 hex characters of an address, upper- and lower-case: /^(0x)?[0-9a-fA-F]{40}$/
IsHexAddress(s) ==
    \/ Len(s) = 40 /\ \A i \in 1..40 : IsHex(s[i])
    \/ Len(s) = 42 /\ startsWith(s, Str0x) /\ \A i \in 3..42 : IsHex(s[i])

\* Stands for nibble i of keccak256 of the lower-cased hex characters, which
\* ethers' getChecksumAddress compares with 8: a fixed function of the address
DigestNibble(hex, i) == (HexValue(hex[i]) * 7 + HexValue(hex[((i * 3) % 40) + 1]) + i) % 16

\* ethers.utils.getAddress's getChecksumAddress: the letters of the lower-cased
\* address whose digest nibble is 8 or more become capitals
ChecksumCase(hex) ==
    SubSeq([i \in 1..40 |-> IF DigestNibble(hex, i) >= 8 THEN UpperChar(hex[i]) ELSE hex[i]], 1, 40)
getChecksumAddress(address) == Str0x \o ChecksumCase(toLowerCase(SubSeq(address, 3, 42)))

\* /([A-F].*[a-f])|([a-f].*[A-F])/
IsMixedCase(s) ==
    /\ \E i \in DOMAIN s : s[i] \in {"A", "B", "C", "D", "E", "F"}
    /\ \E i \in DOMAIN s : s[i] \in {"a", "b", "c", "d", "e", "f"}

\* ethers.utils.getAddress accepts address (it does not throw).  The ICAP form
\* "XE.." is left out: convertENS hands over lower-cased strings only.
getAddressAccepts(address) ==
    /\ IsHexAddress(address)
    /\ LET full == IF startsWith(address, Str0x) THEN address ELSE Str0x \o address
       IN  IsMixedCase(full) => getChecksumAddress(full) = full

\* ethers.utils.getAddress's result where it accepts
getAddress(address) ==
    getChecksumAddress(IF startsWith(address, Str0x) THEN address ELSE Str0x \o address)

\* Mutant: every string is reported valid, as it came
isValidAddressUnchecked(address) == [valid |-> TRUE, address |-> address]

isValidAddress(address) ==
    IF getAddressAccepts(address)
    THEN [valid |-> TRUE, address |-> getAddress(address)]
    ELSE [valid |-> FALSE, address |-> address]

DotEth == <<".", "e", "t", "h">>

\* Line 149: the candidate goes to the resolver
IsENSName(address) == includes(address, DotEth)

\* Line 151: the loop stops at this candidate to await resolveName.  Without a
\* provider this.rpc?.resolveName(address) is undefined and the loop goes on.
AwaitsResolveName(provider, candidate) ==
    provider \notin {Undefined, Null} /\ IsENSName(toLowerCase(candidate))

\* Lines 146-164 for one candidate that is not awaited: what it pushes
convertOne(candidate) ==
    IF IsENSName(toLowerCase(candidate)) THEN <<>>
    ELSE IF isValidAddress(toLowerCase(candidate)).valid
         THEN <<isValidAddress(toLowerCase(candidate)).address>>
         ELSE <<>>

\* Mutant: an address is pushed only if it has not been pushed before
RECURSIVE convertRangeUnique(_, _, _)
convertRangeUnique(addrs, lo, hi) ==
    IF lo > hi THEN <<>>
    ELSE IF lo = hi THEN convertOne(addrs[lo])
    ELSE convertRangeUnique(addrs, lo, hi - 1)
         \o SelectSeq(convertOne(addrs[hi]),
                      LAMBDA a : \A k \in lo..(hi - 1) : convertOne(addrs[k]) # <<a>>)

\* Lines 144-165 for the candidates lo..hi, none of them awaited: what they
\* push, in order (the range is halved to keep the evaluation shallow)
RECURSIVE convertRange(_, _, _)
convertRange(addrs, lo, hi) ==
    IF lo > hi THEN <<>>
    ELSE IF lo = hi THEN convertOne(addrs[lo])
    ELSE convertRange(addrs, lo, (lo + hi) \div 2) \o convertRange(addrs, (lo + hi) \div 2 + 1, hi)

\* The first index from i on at which the loop awaits resolveName, or the
\* length plus one
NextAwait(provider, addrs, i) ==
    Min({k \in i..Len(addrs) : AwaitsResolveName(provider, addrs[k])} \cup {Len(addrs) + 1})

\* Lines 144-165, from index i up to the next call of resolveName or the end of
\* the list: the index reached and the converted addresses so far
convertENSLoop(provider, addrs, i, converted) ==
    [i |-> NextAwait(provider, addrs, i),
     converted |-> converted \o convertRange(addrs, i, NextAwait(provider, addrs, i) - 1)]

\* -------------------------------------------------------------- batch writer

\* Line 183: the addresses per batch file
BatchSize == 100

\* Mutant: the batch is taken from the 1-based position
fileNumberOneBased(i) == (i + 1) \div BatchSize

\* Line 183
fileNumber(i) == i \div BatchSize

\* Lines 183-190 for the 0-based indices lo..hi of the code: the calls of
\* appendFileSync in order, each with its file number and its line
\* "address, numTokens\n", kept as the pair of the two values the template joins
\* (the range is halved to keep the evaluation shallow)
RECURSIVE appendCalls(_, _, _, _)
appendCalls(addrs, tokens, lo, hi) ==
    IF lo > hi THEN <<>>
    ELSE IF lo = hi
         THEN <<[file |-> fileNumber(lo), line |-> [address |-> addrs[lo + 1], amount |-> tokens]]>>
    ELSE appendCalls(addrs, tokens, lo, (lo + hi) \div 2)
         \o appendCalls(addrs, tokens, (lo + hi) \div 2 + 1, hi)

LinesOf(calls) == SubSeq([j \in DOMAIN calls |-> calls[j].line], 1, Len(calls))
\* The lines the calls append to batch-n.txt, in order
AppendedTo(calls, n) == LinesOf(SelectSeq(calls, LAMBDA c : c.file = n))

\* fs.appendFileSync for every call: a file that is not there is created, the
\* line goes to the end of one that is
appendFileSync(dir, calls) ==
    [n \in DOMAIN dir \cup {calls[j].file : j \in DOMAIN calls} |->
        (IF n \in DOMAIN dir THEN dir[n] ELSE <<>>) \o AppendedTo(calls, n)]

\* Lines 181-191
outputLoop(dir, addrs, tokens) ==
    appendFileSync(dir, appendCalls(addrs, tokens, 0, Len(addrs) - 1))

\* ------------------------------------------------------------------ followers

\* followers/index.ts line 134: the identifiers after which no page is asked for
MaxFollowers == 15000
\* followers/index.ts line 164: the identifiers per users/lookup call
LookupChunkSize == 100

\* followers/index.ts chunk(array, chunkSize)
chunk(array, chunkSize) ==
    [k \in 1..((Len(array) + chunkSize - 1) \div chunkSize) |->
        SubSeq(array, (k - 1) * chunkSize + 1,
               IF k * chunkSize < Len(array) THEN k * chunkSize ELSE Len(array))]

\* users/lookup.json answers with one user object for each id asked for
LookupData(batchIds) == SubSeq([j \in DOMAIN batchIds |-> [id_str |-> batchIds[j]]], 1, Len(batchIds))

\* Lines 181-195: the User pushed for each user object (its other fields are
\* copied the same way and left out)
UsersOf(data) == SubSeq([j \in DOMAIN data |-> [id |-> data[j].id_str]], 1, Len(data))

\* Mutant: a page is still asked for with exactly the maximum held
MoreFollowersInclusive(nextCursor, count) == nextCursor # "0" /\ count <= MaxFollowers

\* Line 134: another page of follower ids is asked for
MoreFollowers(nextCursor, count) == nextCursor # "0" /\ count < MaxFollowers

\* --------------------------------------------------------------- environment

\* JavaScript truthiness of a string | undefined | null
Truthy(v) == v # Undefined /\ v # Null /\ v # ""

\* Number(v) of an environment variable, as the template literal prints it
Number(v) == IF v = Undefined THEN "NaN" ELSE IF v = "" THEN "0" ELSE v

\* index.ts line 27: Number(process.env.NUM_TOKENS) ?? 0; NaN is not nullish
numTokensOf(v) == IF Number(v) \in {Undefined, Null} THEN "0" ELSE Number(v)

\* Mutant: the check forgets the bearer token
MissingParametersOnlyID(e) == ~Truthy(e.CONVERSATION_ID)

\* index.ts line 31
MissingParameters(e) == ~Truthy(e.CONVERSATION_ID) \/ ~Truthy(e.TWITTER_BEARER)
\* followers/index.ts line 226
MissingFollowerParameters(e) == ~Truthy(e.TWITTER_BEARER) \/ ~Truthy(e.TWITTER_USER)

\* scraper.ts line 42: the constructor sets rpc only for a truthy rpcProvider
rpcOf(rpcProvider) == IF Truthy(rpcProvider) THEN rpcProvider ELSE Undefined

\* Mutant: the token is not appended and the first page is asked for again
generateEndpointFirstPage(nextToken) == Undefined

\* scraper.ts line 61: the next_token the request carries
generateEndpoint(nextToken) == IF Truthy(nextToken) THEN nextToken ELSE Undefined

\* scraper.ts line 85: collectTweets asks for another page
MoreTweets(nextToken) == Truthy(nextToken)

\* Mutant: convertENS runs whether or not there is an rpc
UsesRpcAlways(r) == TRUE

\* scraper.ts line 207: scrape runs convertENS
UsesRpc(r) == Truthy(r)

\* -------------------------------------------------------------------- inputs

\* The pages the tweet search answers at most
MaxPages == 2

Rep(c, n) == [i \in 1..n |-> c]

\* Tweet texts
AddrLower == Str0x \o Rep("a", 40)
AddrMixed == Str0x \o [i \in 1..40 |-> IF i % 2 = 0 THEN "B" ELSE "1"]
TextAddress == <<"t", "o", " ">> \o AddrLower \o <<"!">>
TextBadAddress == <<"0", "x", "a", "b", "c">>
TextName == <<"i", "m", " ", "B", "o", "b", ".", "E", "T", "H", " ", "o", "k">>
TextBoth == <<"a", ".", "e", "t", "h", "\n", " ">> \o AddrMixed \o <<"z", "z">>
TextNone == <<"g", "m">>

Tweet(id, text) == [id |-> id, text |-> text]

\* A thread of many replies: full pages of 100 tweets (max_results=100), each
\* tweet an address followed by ".eth", and a page of 50 plain addresses
TextAddressDotEth == AddrLower \o <<".", "e", "t", "h">>
Page100 == [k \in 1..100 |-> Tweet("r", TextAddressDotEth)]
Page50 == [k \in 1..50 |-> Tweet("s", AddrMixed)]

\* Texts that hold a 0x token of 42 characters or more between a prefix and a
\* suffix
Token42 == Str0x \o [k \in 1..40 |-> IF k % 3 = 0 THEN "9" ELSE "d"]
Token46 == Str0x \o [k \in 1..44 |-> IF k % 2 = 0 THEN "F" ELSE "2"]
Suffixes == <<<<>>, <<" ", "t", "h", "x">>, <<"z", "_", "9">>, <<"\n", "m", "o", "r", "e">>,
              <<".", "e", "t", "h">>, <<"!">>>>
Prefixes == {<<>>, <<"t", "o", " ">>, <<"h", "i", "\r", "\n">>, <<"i", "d", ":">>,
             <<"s", "e", "e", " ", "0", "x", "a", "b", "1", " ">>, <<"1", "0", "x">>,
             <<"0", "x", "\n">>}
TokenPage(prefix) ==
    [k \in 1..(2 * Len(Suffixes)) |->
        Tweet("m", prefix \o (IF k % 2 = 0 THEN Token42 ELSE Token46) \o Suffixes[(k + 1) \div 2])]

\* The pages of replies the search may answer with, by kind of thread
ThreadPages(kind) ==
    CASE kind = "replies" ->
            {<<Tweet("1", TextAddress)>>,
             <<Tweet("2", TextName), Tweet("3", TextBadAddress)>>,
             <<Tweet("4", TextBoth), Tweet("5", TextNone)>>}
      [] kind = "bulk" ->
            {Page100, Page50, <<Tweet("2", TextName)>>}
      [] kind = "tokens" ->
            {TokenPage(prefix) : prefix \in Prefixes} \cup {<<Tweet("4", TextBoth)>>}

NextTokens == {"t1", "t2"}

\* What resolveName answers: a checksummed address, or null for a name with no
\* address
ResolvedAddress == getAddress(Str0x \o Rep("c", 40))
ResolveAnswers == {ResolvedAddress, NoMatch}

\* The output directory a run may find: none, an empty one, one that holds the
\* batch-0.txt of an earlier run
NoOutput == [exists |-> FALSE, files |-> <<>>]
OldLine == [address |-> AddrLower, amount |-> "1"]
OutputsBefore == {NoOutput,
                  [exists |-> TRUE, files |-> <<>>],
                  [exists |-> TRUE, files |-> [k \in {0} |-> <<OldLine>>]]}

\* The sizes of the pages of follower ids (the API's pages hold 5000 at most)
FollowerPageSizes == {0, 4999, 5000}
Cursors == {"0", "1500", "1600"}

EnvValues == {Undefined, "", "set"}
Envs(m) ==
    IF m = 1
    THEN [CONVERSATION_ID : EnvValues, TWITTER_BEARER : EnvValues,
          NUM_TOKENS : {Undefined, "5"}, RPC_PROVIDER : {Undefined, "http://rpc"},
          TWITTER_USER : {Undefined}]
    ELSE [CONVERSATION_ID : {Undefined}, TWITTER_BEARER : EnvValues,
          NUM_TOKENS : {Undefined}, RPC_PROVIDER : {Undefined},
          TWITTER_USER : EnvValues]

\* --------------------------------------------------------------------- state

VARIABLES
    mode,               \* 1: index.ts (npm run start), 2: followers/index.ts
    env,                \* process.env
    thread,             \* the kind of thread the search answers from
    pc,                 \* where the run is
    failure,            \* what rejected, of a run that failed
    reported,           \* logger.error was called
    network,            \* a request has been issued
    \* scraper.ts Scraper
    rpc, numTokens, tweets, addresses,
    i, convertedAddresses,      \* convertENS's locals while it awaits resolveName
    requests,           \* the next_token of every search request, in order
    responses,          \* every search response: its tweets and next_token
    candidates,         \* what cleanTweetsForAddresses pushed, with the tweet and the match
    lookups,            \* every resolveName call: the name and the answer
    output,             \* ./output after outputAddresses
    outputBefore,       \* ./output as outputAddresses found it
    \* followers/index.ts Scraper
    ids, users,
    cursor,             \* next_cursor_str of the last page of follower ids
    collected,          \* the number of ids of the last page (logged at line 129)
    chunkIndex,         \* collectAllUsers's i (1-based) while it awaits the lookup
    followerIds,        \* follower-ids.json
    followerDetails     \* follower-details.json

scraperVars == <<rpc, numTokens, tweets, addresses, i, convertedAddresses, requests,
                 responses, candidates, lookups, output, outputBefore>>
followerVars == <<ids, users, cursor, collected, chunkIndex, followerIds, followerDetails>>
vars == <<mode, env, thread, pc, failure, reported, network, scraperVars, followerVars>>

NotWritten == [written |-> FALSE, content |-> <<>>]
Written(content) == [written |-> TRUE, content |-> content]

InitFields ==
    /\ pc = "start"
    /\ failure = "none"
    /\ reported = FALSE
    /\ network = FALSE
    /\ rpc = Undefined
    /\ numTokens = Undefined
    /\ tweets = <<>>
    /\ addresses = <<>>
    /\ i = 0
    /\ convertedAddresses = <<>>
    /\ requests = <<>>
    /\ responses = <<>>
    /\ candidates = <<>>
    /\ lookups = <<>>
    /\ output = NoOutput
    /\ outputBefore = NoOutput
    /\ ids = <<>>
    /\ users = <<>>
    /\ cursor = Undefined
    /\ collected = 0
    /\ chunkIndex = 0
    /\ followerIds = NotWritten
    /\ followerDetails = NotWritten

Init ==
    /\ mode \in {1, 2}
    /\ env \in Envs(mode)
    /\ thread = "replies"
    /\ InitFields

\* ------------------------------------------------------- index.ts, scraper.ts

\* Lines 103-115: what one match pushes, with the tweet and the regular
\* expression it comes from
Pushed(k, match, foundArrs) ==
    IF Candidate(foundArrs) = <<>> THEN <<>>
    ELSE <<[tweet |-> k, match |-> match, addr |-> Candidate(foundArrs)[1]]>>

\* Lines 96-115 for tweet k
cleanTweet(k, cleanedText) ==
    Pushed(k, "address", addressRegex(cleanedText)) \o Pushed(k, "ens", ENSRegex(cleanedText))

\* Lines 95-116 for the tweets lo..hi (the range is halved to keep the
\* evaluation shallow)
RECURSIVE cleanTweets(_, _, _)
cleanTweets(tws, lo, hi) ==
    IF lo > hi THEN <<>>
    ELSE IF lo = hi THEN cleanTweet(lo, RemoveLineBreaks(tws[lo].text))
    ELSE cleanTweets(tws, lo, (lo + hi) \div 2) \o cleanTweets(tws, (lo + hi) \div 2 + 1, hi)

\* The strings pushed on this.addresses
Addrs(pushed) == SubSeq([j \in DOMAIN pushed |-> pushed[j].addr], 1, Len(pushed))

\* index.ts lines 23-45: the parameters are checked, the scraper is built and
\* scrape() asks for the first page of tweets
Main ==
    /\ pc = "start"
    /\ mode = 1
    /\ IF MissingParameters(env)
       THEN /\ reported' = TRUE
            /\ pc' = "exited"
            /\ UNCHANGED <<network, scraperVars>>
       ELSE /\ rpc' = rpcOf(env.RPC_PROVIDER)
            /\ numTokens' = numTokensOf(env.NUM_TOKENS)
            /\ requests' = <<generateEndpoint(Undefined)>>
            /\ network' = TRUE
            /\ pc' = "collectTweets"
            /\ UNCHANGED <<reported, tweets, addresses, i, convertedAddresses, responses,
                           candidates, lookups, output, outputBefore>>
    /\ UNCHANGED <<mode, env, thread, failure, followerVars>>

\* scraper.ts lines 68-89: a page of tweets arrives
collectTweets ==
    /\ pc = "collectTweets"
    /\ \E data \in ThreadPages(thread), nextToken \in NextTokens \cup {Undefined} :
          /\ nextToken # Undefined => Len(requests) < MaxPages
          /\ tweets' = tweets \o data
          /\ responses' = Append(responses, [data |-> data, next_token |-> nextToken])
          /\ IF MoreTweets(nextToken)
             THEN /\ requests' = Append(requests, generateEndpoint(nextToken))
                  /\ pc' = pc
             ELSE /\ requests' = requests
                  /\ pc' = "collected"
    /\ UNCHANGED <<mode, env, thread, failure, reported, network, rpc, numTokens, addresses,
                   i, convertedAddresses, candidates, lookups, output, outputBefore,
                   followerVars>>

\* Mutant: what was collected is cleaned and written before the failure is
\* passed on
collectTweetsFailsSaving ==
    /\ pc = "collectTweets"
    /\ pc' = "failed"
    /\ failure' = "fetch"
    /\ output' = [exists |-> TRUE,
                  files |-> outputLoop(<<>>, Addrs(cleanTweets(tweets, 1, Len(tweets))), numTokens)]
    /\ UNCHANGED <<mode, env, thread, reported, network, rpc, numTokens, tweets, addresses, i,
                   convertedAddresses, requests, responses, candidates, lookups, outputBefore,
                   followerVars>>

\* scraper.ts line 70: the request rejects, and scrape() with it
collectTweetsFails ==
    /\ pc = "collectTweets"
    /\ pc' = "failed"
    /\ failure' = "fetch"
    /\ UNCHANGED <<mode, env, thread, reported, network, scraperVars, followerVars>>

\* scraper.ts lines 94-117, called at line 203
cleanTweetsForAddresses ==
    /\ pc = "collected"
    /\ candidates' = cleanTweets(tweets, 1, Len(tweets))
    /\ addresses' = addresses \o Addrs(candidates')
    /\ pc' = "cleaned"
    /\ UNCHANGED <<mode, env, thread, failure, reported, network, rpc, numTokens, tweets,
                   i, convertedAddresses, requests, responses, lookups, output,
                   outputBefore, followerVars>>

\* scraper.ts lines 144-167: the loop goes on from index from with the addresses
\* converted so far, up to the next resolveName or to line 167
convertENSFrom(from, converted) ==
    LET r == convertENSLoop(rpc, addresses, from, converted)
    IN  IF r.i > Len(addresses)
        THEN /\ addresses' = r.converted
             /\ i' = 0
             /\ convertedAddresses' = <<>>
             /\ pc' = "converted"
             /\ UNCHANGED network
        ELSE /\ i' = r.i
             /\ convertedAddresses' = r.converted
             /\ pc' = "resolveName"
             /\ network' = TRUE
             /\ UNCHANGED addresses

\* scraper.ts lines 207-211 and 141-146: convertENS runs if there is an rpc
convertENS ==
    /\ pc = "cleaned"
    /\ IF UsesRpc(rpc)
       THEN convertENSFrom(1, <<>>)
       ELSE /\ pc' = "converted"
            /\ UNCHANGED <<addresses, i, convertedAddresses, network>>
    /\ UNCHANGED <<mode, env, thread, failure, reported, rpc, numTokens, tweets, requests,
                   responses, candidates, lookups, output, outputBefore, followerVars>>

\* scraper.ts lines 151-155: resolveName answers
resolveName ==
    /\ pc = "resolveName"
    /\ \E parsed \in ResolveAnswers :
          /\ lookups' = Append(lookups, [name |-> toLowerCase(addresses[i]), parsed |-> parsed])
          /\ convertENSFrom(i + 1, IF parsed # NoMatch
                                   THEN Append(convertedAddresses, parsed)
                                   ELSE convertedAddresses)
    /\ UNCHANGED <<mode, env, thread, failure, reported, rpc, numTokens, tweets, requests,
                   responses, candidates, output, outputBefore, followerVars>>

\* scraper.ts line 151: resolveName rejects (the provider cannot be reached);
\* nothing catches it
resolveNameFails ==
    /\ pc = "resolveName"
    /\ pc' = "failed"
    /\ failure' = "resolveName"
    /\ UNCHANGED <<mode, env, thread, reported, network, scraperVars, followerVars>>

\* scraper.ts lines 174-192, called at line 214
outputAddresses ==
    /\ pc = "converted"
    /\ \E before \in OutputsBefore :
          /\ outputBefore' = before
          /\ output' = [exists |-> TRUE,
                        files |-> outputLoop(before.files, addresses, numTokens)]
    /\ pc' = "done"
    /\ UNCHANGED <<mode, env, thread, failure, reported, network, rpc, numTokens, tweets,
                   addresses, i, convertedAddresses, requests, responses, candidates,
                   lookups, followerVars>>

\* -------------------------------------------------------- followers/index.ts

\* Lines 220-235: the parameters are checked, the scraper is built and scrape()
\* asks for the first page of follower ids
FollowersMain ==
    /\ pc = "start"
    /\ mode = 2
    /\ IF MissingFollowerParameters(env)
       THEN /\ reported' = TRUE
            /\ pc' = "exited"
            /\ UNCHANGED network
       ELSE /\ network' = TRUE
            /\ pc' = "collectAllFollowers"
            /\ UNCHANGED reported
    /\ UNCHANGED <<mode, env, thread, failure, scraperVars, ids, users, cursor, collected,
                   chunkIndex,
                   followerIds, followerDetails>>

\* Lines 116-138: a page of follower ids arrives
collectAllFollowers ==
    /\ pc = "collectAllFollowers"
    /\ \E n \in FollowerPageSizes, nextCursor \in Cursors :
          /\ ids' = ids \o [k \in 1..n |-> Len(ids) + k]
          /\ cursor' = nextCursor
          /\ collected' = n
          /\ pc' = IF MoreFollowers(nextCursor, Len(ids')) THEN pc ELSE "collectedFollowers"
    /\ UNCHANGED <<mode, env, thread, failure, reported, network, scraperVars, users,
                   chunkIndex, followerIds, followerDetails>>

\* Line 118: the request rejects, and scrape() with it
collectAllFollowersFails ==
    /\ pc = "collectAllFollowers"
    /\ pc' = "failed"
    /\ failure' = "fetch"
    /\ UNCHANGED <<mode, env, thread, reported, network, scraperVars, followerVars>>

\* Lines 211 and 162-178: follower-ids.json is written and collectAllUsers
\* asks for the first chunk
writeFollowerIds ==
    /\ pc = "collectedFollowers"
    /\ followerIds' = Written(ids)
    /\ IF Len(chunk(ids, LookupChunkSize)) > 0
       THEN /\ chunkIndex' = 1
            /\ pc' = "collectAllUsers"
       ELSE /\ chunkIndex' = chunkIndex
            /\ pc' = "collectedUsers"
    /\ UNCHANGED <<mode, env, thread, failure, reported, network, scraperVars, ids, users,
                   cursor, collected, followerDetails>>

\* Lines 172-199: the users of one chunk arrive
collectAllUsers ==
    /\ pc = "collectAllUsers"
    /\ users' = users \o UsersOf(LookupData(chunk(ids, LookupChunkSize)[chunkIndex]))
    /\ IF chunkIndex < Len(chunk(ids, LookupChunkSize))
       THEN /\ chunkIndex' = chunkIndex + 1
            /\ pc' = pc
       ELSE /\ chunkIndex' = 0
            /\ pc' = "collectedUsers"
    /\ UNCHANGED <<mode, env, thread, failure, reported, network, scraperVars, ids, cursor,
                   collected, followerIds, followerDetails>>

\* Line 172: the lookup rejects, and scrape() with it
collectAllUsersFails ==
    /\ pc = "collectAllUsers"
    /\ pc' = "failed"
    /\ failure' = "lookup"
    /\ UNCHANGED <<mode, env, thread, reported, network, scraperVars, followerVars>>

\* Line 216
writeFollowerDetails ==
    /\ pc = "collectedUsers"
    /\ followerDetails' = Written(users)
    /\ pc' = "done"
    /\ UNCHANGED <<mode, env, thread, failure, reported, network, scraperVars, ids, users,
                   cursor, collected, chunkIndex, followerIds>>

\* ----------------------------------------------------------- specifications

NextTweets ==
    \/ Main
    \/ collectTweets
    \/ collectTweetsFails
    \/ cleanTweetsForAddresses
    \/ convertENS
    \/ resolveName
    \/ resolveNameFails
    \/ outputAddresses

NextFollowers ==
    \/ FollowersMain
    \/ collectAllFollowers
    \/ collectAllFollowersFails
    \/ writeFollowerIds
    \/ collectAllUsers
    \/ collectAllUsersFails
    \/ writeFollowerDetails

Next == NextTweets \/ NextFollowers

Spec == Init /\ [][Next]_vars

\* npm run start alone
InitTweets == Init /\ mode = 1
SpecTweets == InitTweets /\ [][NextTweets]_vars

\* npm run start on a thread of many replies, the parameters all set
InitBatch ==
    /\ mode = 1
    /\ env \in {e \in Envs(mode) : ~MissingParameters(e) /\ e.NUM_TOKENS # Undefined}
    /\ thread = "bulk"
    /\ InitFields
SpecBatch == InitBatch /\ [][NextTweets]_vars

\* npm run start on a thread of replies that hold 0x tokens, the parameters all
\* set, up to the end of cleanTweetsForAddresses (scrape line 203)
InitMatch ==
    /\ mode = 1
    /\ env \in {e \in Envs(mode) : ~MissingParameters(e) /\ e.NUM_TOKENS # Undefined}
    /\ thread = "tokens"
    /\ InitFields
NextMatch ==
    \/ Main
    \/ collectTweets
    \/ collectTweetsFails
    \/ cleanTweetsForAddresses
SpecMatch == InitMatch /\ [][NextMatch]_vars

\* npm run followers alone
InitFollowers == Init /\ mode = 2
SpecFollowers == InitFollowers /\ [][NextFollowers]_vars

\* npm run followers, every request for a page of ids answered or rejected in
\* the end (axios settles its promise)
SpecFollowersFair ==
    SpecFollowers /\ WF_vars(collectAllFollowers \/ collectAllFollowersFails)

\* ------------------------------------------------------------------- claims

\* The lines this run appended to the batch files
LinesBefore(n) == IF n \in DOMAIN outputBefore.files THEN Len(outputBefore.files[n]) ELSE 0
WrittenTo(n) == SubSeq(output.files[n], LinesBefore(n) + 1, Len(output.files[n]))
WrittenLines == UNION {{WrittenTo(n)[j] : j \in DOMAIN WrittenTo(n)} : n \in DOMAIN output.files}

\* A canonical address: 0x, forty hex digits, in the checksum's case
IsCanonical(a) ==
    /\ Len(a) = 42
    /\ startsWith(a, Str0x)
    /\ \A k \in 3..42 : IsHex(a[k])
    /\ getChecksumAddress(a) = a

\* A name-service name: a token that ends in .eth, in any case
EndsInDotEth(a) == Len(a) >= 4 /\ DotEthAt(a, Len(a) - 3)

IsMissing(v) == v = Undefined \/ v = ""

\* C2 as stated: with no resolution endpoint, no line of a batch file holds a
\* name-service name once scrape is done.
C2_NamesExcluded ==
    (pc = "done" /\ rpc = Undefined) => \A l \in WrittenLines : ~EndsInDotEth(l.address)

\* C2 as amended: with no resolution endpoint every name-shaped candidate of the
\* Matcher is passed through untouched; once scrape is done it is a line of a
\* batch file exactly as it was matched, and no candidate has been removed.
C2_NamesPassedThrough ==
    (pc = "done" /\ rpc = Undefined) =>
        /\ Len(addresses) = Len(candidates)
        /\ \A k \in DOMAIN candidates :
              candidates[k].match = "ens" =>
                  \E l \in WrittenLines : l.address = candidates[k].addr

C2_Witness ==
    /\ pc = "done"
    /\ rpc = Undefined
    /\ \E k \in DOMAIN candidates : candidates[k].match = "ens" /\ EndsInDotEth(candidates[k].addr)
    /\ \E l \in WrittenLines : EndsInDotEth(l.address)

\* C3 as stated: with or without a resolution endpoint, every entry written to
\* a batch file is a canonical address.
C3_AlwaysCanonical ==
    pc = "done" => \A l \in WrittenLines : IsCanonical(l.address)

\* C3 as amended: in every run of scrape with a resolution endpoint configured,
\* every entry written to a batch file is a canonical address (one the Validator
\* returned checksummed, or one the Resolver returned).
C3_CanonicalWithEndpoint ==
    (pc = "done" /\ rpc # Undefined) => \A l \in WrittenLines : IsCanonical(l.address)

C3_Witness ==
    /\ pc = "done"
    /\ rpc # Undefined
    /\ \E l \in WrittenLines : l.address = ResolvedAddress
    /\ \E l \in WrittenLines : l.address = getAddress(AddrLower)
    /\ \E k \in DOMAIN candidates : candidates[k].addr = TextBadAddress

\* C4: a failure of the name resolution for one candidate is never fatal; the
\* run never fails because resolveName failed.
C4_ResolutionNeverFatal ==
    pc = "failed" => failure # "resolveName"

\* C5 as stated: in mode 1 a missing conversation id, bearer token or
\* distribution amount ends the program, the error reported, before any network
\* request; in mode 2 the same for the bearer token and the handle.
C5_MissingConfigAll ==
    /\ (mode = 1 /\ (IsMissing(env.CONVERSATION_ID) \/ IsMissing(env.TWITTER_BEARER)
                     \/ IsMissing(env.NUM_TOKENS)))
          => (~network /\ pc \in {"start", "exited"} /\ (pc = "exited" => reported))
    /\ (mode = 2 /\ (IsMissing(env.TWITTER_BEARER) \/ IsMissing(env.TWITTER_USER)))
          => (~network /\ pc \in {"start", "exited"} /\ (pc = "exited" => reported))

\* C5 as amended: in mode 1 a missing conversation id or bearer token ends the
\* program, the error reported, before any network request (a missing
\* distribution amount does not); in mode 2 the same for the bearer token and
\* the handle.
C5_MissingConfig ==
    /\ (mode = 1 /\ (IsMissing(env.CONVERSATION_ID) \/ IsMissing(env.TWITTER_BEARER)))
          => (~network /\ pc \in {"start", "exited"} /\ (pc = "exited" => reported))
    /\ (mode = 2 /\ (IsMissing(env.TWITTER_BEARER) \/ IsMissing(env.TWITTER_USER)))
          => (~network /\ pc \in {"start", "exited"} /\ (pc = "exited" => reported))

C5_Witness ==
    /\ mode = 1
    /\ pc = "exited"
    /\ reported
    /\ ~network
    /\ ~IsMissing(env.CONVERSATION_ID)
    /\ IsMissing(env.TWITTER_BEARER)

\* C7: a response without a next-page token ends the Accumulate phase with no
\* further fetch, a response with one is followed by exactly one fetch that
\* uses it, so the fetches are one more than the token-carrying responses, and
\* the tweet list is the fetched pages in fetch order.
RECURSIVE PagesFrom(_)
PagesFrom(k) == IF k > Len(responses) THEN <<>> ELSE responses[k].data \o PagesFrom(k + 1)
C7_Pagination ==
    requests # <<>> =>
        /\ Len(requests) = Cardinality({k \in DOMAIN responses : responses[k].next_token # Undefined}) + 1
        /\ requests[1] = Undefined
        /\ \A k \in DOMAIN responses :
              IF responses[k].next_token = Undefined
              THEN k = Len(responses) /\ Len(requests) = k /\ pc # "collectTweets"
              ELSE Len(requests) >= k + 1 /\ requests[k + 1] = responses[k].next_token
        /\ pc = "collectTweets" => Len(responses) = Len(requests) - 1
        /\ tweets = PagesFrom(1)

C7_Witness ==
    /\ pc = "collected"
    /\ Len(requests) = 2
    /\ Len(responses) = 2
    /\ responses[1].data # responses[2].data
    /\ Len(tweets) = 3

\* C8 as stated: a run in which a request to the source API failed (tweet
\* paging, follower-id paging, profile lookup) has written no batch file and no
\* follower document.
C8_NothingPersisted ==
    failure \in {"fetch", "lookup"} =>
        (output = NoOutput /\ ~followerIds.written /\ ~followerDetails.written)

\* C8 as amended: a run in which tweet paging or follower-id paging failed has
\* written no batch file and no follower document; a run in which a profile
\* lookup failed has written follower-ids.json, with all the ids collected, and
\* not follower-details.json.
C8_PersistedOnFailure ==
    /\ failure = "fetch" =>
          (output = NoOutput /\ ~followerIds.written /\ ~followerDetails.written)
    /\ failure = "lookup" =>
          (output = NoOutput /\ followerIds = Written(ids) /\ ~followerDetails.written)

C8_Witness ==
    /\ failure = "fetch"
    /\ mode = 1
    /\ Len(tweets) > 0

\* C9: with a resolution endpoint the final list is the candidates in discovery
\* order (tweets in fetch order, in a tweet the address match before the name
\* match), each validated or resolved one replaced by its canonical address and
\* each failed one removed; the order is kept and duplicates are kept.
IsNameCandidate(k) == includes(toLowerCase(candidates[k].addr), DotEth)
NameRank(k) == Cardinality({j \in 1..k : IsNameCandidate(j)})
Outcome(k) ==
    IF IsNameCandidate(k)
    THEN IF lookups[NameRank(k)].parsed = NoMatch THEN <<>> ELSE <<lookups[NameRank(k)].parsed>>
    ELSE IF getAddressAccepts(toLowerCase(candidates[k].addr))
         THEN <<getAddress(toLowerCase(candidates[k].addr))>>
         ELSE <<>>
RECURSIVE Survivors(_)
Survivors(k) == IF k > Len(candidates) THEN <<>> ELSE Outcome(k) \o Survivors(k + 1)
C9_DiscoveryOrder ==
    /\ \A j, k \in DOMAIN candidates :
          j < k => \/ candidates[j].tweet < candidates[k].tweet
                   \/ /\ candidates[j].tweet = candidates[k].tweet
                      /\ candidates[j].match = "address"
                      /\ candidates[k].match = "ens"
    /\ (pc \in {"converted", "done"} /\ rpc # Undefined) => addresses = Survivors(1)

C9_Witness ==
    /\ pc = "converted"
    /\ rpc # Undefined
    /\ Len(addresses) = 3
    /\ Len(candidates) = 4
    /\ addresses[1] = addresses[3]
    /\ addresses[2] = ResolvedAddress

\* C1: written into an output directory with no batch file, the entry at
\* 0-based position i of the N final addresses is line i mod 100 of batch
\* floor(i/100); there are ceil(N/100) batch files, each of 100 lines but the
\* last, which has N mod 100 when that is not 0.
C1_Batches ==
    (pc = "done" /\ outputBefore.files = <<>>) =>
        /\ DOMAIN output.files = 0..(((Len(addresses) + 99) \div 100) - 1)
        /\ \A n \in DOMAIN output.files :
              Len(output.files[n]) =
                  IF n < ((Len(addresses) + 99) \div 100) - 1 \/ Len(addresses) % 100 = 0
                  THEN 100
                  ELSE Len(addresses) % 100
        /\ \A k \in 0..(Len(addresses) - 1) :
              output.files[k \div 100][(k % 100) + 1]
                  = [address |-> addresses[k + 1], amount |-> numTokens]

C1_Witness ==
    /\ pc = "done"
    /\ outputBefore.files = <<>>
    /\ Len(addresses) = 250
    /\ DOMAIN output.files = {0, 1, 2}
    /\ Len(output.files[0]) = 100
    /\ Len(output.files[1]) = 100
    /\ Len(output.files[2]) = 50

\* A well-formed 0x token of 42 characters or more starts at p
WellFormedTokenAt(t, p) ==
    /\ p + 41 <= Len(t)
    /\ t[p] = "0"
    /\ t[p + 1] = "x"
    /\ \A j \in 2..41 : IsHex(t[p + j])

\* The address-shaped candidate pushed for tweet k is a
AddressCandidateIs(k, a) ==
    \E j \in DOMAIN candidates :
        candidates[j].tweet = k /\ candidates[j].match = "address" /\ candidates[j].addr = a

\* The address pattern (0x, an alphanumeric, a word character) matches in t
\* somewhere before q
MatchesBefore(t, q) ==
    \E r \in 1..(q - 1) :
        /\ r + 3 <= Len(t)
        /\ t[r] = "0"
        /\ t[r + 1] = "x"
        /\ IsAlnum(t[r + 2])
        /\ IsWord(t[r + 3])

\* Where position p of t falls once the line breaks are removed
CleanPosition(t, p) == Len(RemoveLineBreaks(SubSeq(t, 1, p - 1))) + 1

Cleaned == pc = "cleaned"

\* C6 as stated: for every tweet text with a well-formed 0x token of 42
\* characters or more anywhere in it, the address-shaped candidate pushed for
\* the tweet is the 42 characters from the token's start, whatever precedes or
\* follows.
C6_TokenAnywhere ==
    Cleaned =>
        \A k \in DOMAIN tweets : \A p \in DOMAIN tweets[k].text :
            WellFormedTokenAt(tweets[k].text, p)
                => AddressCandidateIs(k, SubSeq(tweets[k].text, p, p + 41))

\* C6 as amended: the same for every such token that no match of the address
\* pattern precedes in the text without its line breaks (only the first match
\* of a tweet is taken), whatever follows the token.
C6_FirstToken ==
    Cleaned =>
        \A k \in DOMAIN tweets : \A p \in DOMAIN tweets[k].text :
            (/\ WellFormedTokenAt(tweets[k].text, p)
             /\ ~MatchesBefore(RemoveLineBreaks(tweets[k].text), CleanPosition(tweets[k].text, p)))
                => AddressCandidateIs(k, SubSeq(tweets[k].text, p, p + 41))

C6_Witness ==
    /\ pc = "cleaned"
    /\ \E k \in DOMAIN tweets :
          /\ tweets[k].text = <<"h", "i", "\r", "\n">> \o Token46 \o <<"z", "_", "9">>
          /\ AddressCandidateIs(k, SubSeq(Token46, 1, 42))

\* C10: after a page of follower ids is appended another page is asked for if
\* and only if the cursor is not "0" and fewer than 15000 ids are held; no page
\* is asked for with 15000 or more held; and the phase ends if no page with a
\* cursor other than "0" is empty.
C10_FollowerPaging ==
    /\ [](pc = "collectAllFollowers" => Len(ids) < 15000)
    /\ [][(pc = "collectAllFollowers" /\ pc' # "failed")
            => (pc' = "collectAllFollowers" <=> (cursor' # "0" /\ Len(ids') < 15000))]_vars
    /\ [](~(pc = "collectAllFollowers" /\ collected = 0 /\ cursor \notin {"0", Undefined}))
          => [](pc = "collectAllFollowers" => <>(pc # "collectAllFollowers"))

C10_Witness ==
    /\ pc = "collectedFollowers"
    /\ cursor # "0"
    /\ Len(ids) = 19999

\* The phase ends whatever the pages (it does not: empty pages with a cursor
\* can go on for ever)
C10_AlwaysEnds == pc = "collectAllFollowers" ~> pc # "collectAllFollowers"

====
